---------------------------- MODULE Spec2Model ----------------------------
(***************************************************************************)
(* Model of src/childprocess.js: the programs the file is made of.         *)
(*                                                                         *)
(*   - the forked HTTP server (lines 377-391) with its worker compute.js   *)
(*     (lines 362-373): specification Spec (FairSpec adds the fairness of  *)
(*     the event loops);                                                   *)
(*   - the in-process HTTP server (lines 328-349): its handler is also     *)
(*     what the forked server was written to replace;                      *)
(*   - parent.js / child.js (lines 291-310): specification SpecMsg;        *)
(*   - the spawned child with piped stdio and its 'exit' and 'data'        *)
(*     listeners (lines 49-87): specification SpecSpawn;                   *)
(*   - wc fed from the parent's stdin (lines 105-111): specification       *)
(*     SpecPipe (FairSpecPipe adds the progress of both processes);        *)
(*   - the detached, unreferenced timer.js (lines 222-241):                *)
(*     specification SpecDetached;                                         *)
(*   - the in-process server alone: specification SpecInProc.              *)
(*                                                                         *)
(* A JavaScript handler runs to completion on its event loop, so every     *)
(* handler is one action.  Child processes are scheduled by the OS and     *)
(* may terminate at any moment.                                            *)
(***************************************************************************)
EXTENDS Integers, Sequences, FiniteSets, TLC

\* ------------------------------------------------------------------ bounds
\* number of HTTP requests the server receives in a run
MaxRequests == 3
\* number of iterations of longComputation's loop (1e9 in the source)
LoopLimit == 3
\* number of ticks of child.js's interval timer in a run
MaxCounter == 6
\* number of chunks the spawned child writes to its stdio in a run
MaxChunks == 2
\* capacity of an OS pipe buffer, in chunks
PipeCap == 1

\* ------------------------------------------------------------------ state
VARIABLES
  \* forked server and in-process server
  nreq,       \* number of 'request' events handled so far
  url,        \* url[r]: req.url of request r ("-" before it arrives)
  resEnd,     \* resEnd[r]: the calls of res.end on request r's response
  busy,       \* the request whose handler occupies the event loop (0: free)
  loopI,      \* longComputation's i, while the in-process handler runs
  loopSum,    \* longComputation's sum, while the in-process handler runs
  serverUp,   \* the server process is running
  nfork,      \* number of fork('compute.js') calls so far
  owner,      \* owner[w]: the request whose handler forked worker w (0: none)
  listener,   \* listener[w]: the res captured by compute.on('message') (0: none)
  wstate,     \* wstate[w]: "unborn", "running", "exited" or "failed"
  exitInfo,   \* exitInfo[w]: code and signal worker w terminated with
  exitEvent,  \* exitEvent[w]: "none", "pending" or "emitted" in the parent
  sendErr,    \* sendErr[w]: "none", "pending", "thrown" or "dropped"
  spawnErr,   \* spawnErr[w]: "none", "pending" or "thrown"
  nsent,      \* nsent[w]: number of process.send(sum) calls of worker w
  toChild,    \* toChild[w]: messages sent by the parent, not yet received
  fromChild,  \* fromChild[w]: messages sent by worker w, not yet received
  \* parent.js / child.js
  forkedAlive, \* the forked child.js process is running
  counter,     \* child.js's counter
  msgUp,       \* messages child.js sent, not yet received by parent.js
  msgDown,     \* messages parent.js sent, not yet received by child.js
  parentLog,   \* the messages parent.js's listener logged
  childLog,    \* the messages child.js's listener logged
  \* spawned child with piped stdio
  childState,  \* "unborn", "running", "blocked" (in a write) or "exited"
  childExit,   \* code and signal the child terminated with
  written,     \* number of chunks the child wrote so far
  stdoutPipe,  \* chunks in the child's stdout pipe
  stderrPipe,  \* chunks in the child's stderr pipe
  events,      \* events the ChildProcess object still has to emit
  consoleLog,  \* the parent's console.log / console.error calls
  \* wc fed from the parent's stdin
  typed,       \* number of chunks read from process.stdin so far
  stdinEnded,  \* process.stdin has ended (Ctrl+D)
  stdinPipe,   \* chunks in the child's stdin pipe
  wcCount,     \* number of chunks wc has counted
  \* detached timer.js
  parentState,  \* the spawning process: "running" or "exited"
  parentExit,   \* code and signal the spawning process terminated with
  parentExitAt, \* the tick of timer.js at which the spawning process terminated
  dState,       \* the timer.js process: "unborn", "running" or "exited"
  dExit,        \* code and signal timer.js terminated with
  dTicks        \* time elapsed of timer.js's timeout, in ticks

serverVars == <<nreq, url, resEnd, busy, loopI, loopSum, serverUp, nfork, owner,
                listener, wstate, exitInfo, exitEvent, sendErr, spawnErr, nsent,
                toChild, fromChild>>
msgVars == <<forkedAlive, counter, msgUp, msgDown, parentLog, childLog>>
spawnVars == <<childState, childExit, written, stdoutPipe, stderrPipe, events,
               consoleLog>>
pipeVars == <<typed, stdinEnded, stdinPipe, wcCount>>
detVars == <<parentState, parentExit, parentExitAt, dState, dExit, dTicks>>
exampleVars == <<pipeVars, detVars>>
vars == <<serverVars, msgVars, spawnVars, exampleVars>>

Req == 1..MaxRequests
Worker == 1..MaxRequests

\* code and signal of a process that has not terminated
NoExit == [code |-> "null", signal |-> "null"]
\* what the 'exit' event can carry: a code if the process exited, a signal if
\* it was killed
ExitInfos == {[code |-> "0", signal |-> "null"],
              [code |-> "1", signal |-> "null"],
              [code |-> "null", signal |-> "SIGTERM"]}

PipeIdle ==
  /\ typed = 0
  /\ stdinEnded = FALSE
  /\ stdinPipe = <<>>
  /\ wcCount = 0

DetachedIdle ==
  /\ parentState = "running"
  /\ parentExit = NoExit
  /\ parentExitAt = 0
  /\ dState = "unborn"
  /\ dExit = NoExit
  /\ dTicks = 0

ExamplesIdle == PipeIdle /\ DetachedIdle

\* the outcome of a fork that could not create the process
SpawnFailed == [code |-> "ENOENT", signal |-> "null"]

\* the state of each program before it starts
ServerIdle ==
  /\ nreq = 0
  /\ url = [r \in Req |-> "-"]
  /\ resEnd = [r \in Req |-> <<>>]
  /\ busy = 0
  /\ loopI = 0
  /\ loopSum = 0
  /\ serverUp = TRUE
  /\ nfork = 0
  /\ owner = [w \in Worker |-> 0]
  /\ listener = [w \in Worker |-> 0]
  /\ wstate = [w \in Worker |-> "unborn"]
  /\ exitInfo = [w \in Worker |-> NoExit]
  /\ exitEvent = [w \in Worker |-> "none"]
  /\ sendErr = [w \in Worker |-> "none"]
  /\ spawnErr = [w \in Worker |-> "none"]
  /\ nsent = [w \in Worker |-> 0]
  /\ toChild = [w \in Worker |-> <<>>]
  /\ fromChild = [w \in Worker |-> <<>>]

MsgIdle ==
  /\ forkedAlive = FALSE
  /\ counter = 0
  /\ msgUp = <<>>
  /\ msgDown = <<>>
  /\ parentLog = <<>>
  /\ childLog = <<>>

SpawnIdle ==
  /\ childState = "unborn"
  /\ childExit = NoExit
  /\ written = 0
  /\ stdoutPipe = <<>>
  /\ stderrPipe = <<>>
  /\ events = {}
  /\ consoleLog = <<>>


\* --------------------------------------------------------- longComputation
RECURSIVE SumLoop(_, _)
\* the for loop of longComputation from (i, sum) on
SumLoop(i, sum) == IF i < LoopLimit THEN SumLoop(i + 1, sum + i) ELSE sum

longComputation == SumLoop(0, 0)

\* the body `Sum is ${sum}`
SumBody(sum) == <<"Sum is ", sum>>
\* the body 'Ok'
OkBody == <<"Ok">>

\* res.end(text) on request r's response, called by the listener of worker
\* via (0: by the 'request' handler itself)
ResEndCall(r, text, via) ==
  resEnd' = [resEnd EXCEPT ![r] = Append(@, [text |-> text, via |-> via])]

\* ------------------------------------------------------------ compute.js
\* a worker that sends its sum twice for one message
WorkerSendsTwice(w) ==
  /\ wstate[w] = "running"
  /\ toChild[w] # <<>>
  /\ toChild' = [toChild EXCEPT ![w] = Tail(@)]
  /\ fromChild' = [fromChild EXCEPT ![w] = @ \o <<longComputation, longComputation>>]
  /\ nsent' = [nsent EXCEPT ![w] = @ + 2]
  /\ UNCHANGED <<nreq, url, resEnd, busy, loopI, loopSum, serverUp, nfork,
                 owner, listener, wstate, exitInfo, exitEvent, sendErr>>
  /\ UNCHANGED <<spawnErr, msgVars, spawnVars, exampleVars>>

\* process.on('message', ...) of compute.js: every message makes the worker
\* run longComputation and send the sum
WorkerOnMessage(w) ==
  /\ wstate[w] = "running"
  /\ toChild[w] # <<>>
  /\ toChild' = [toChild EXCEPT ![w] = Tail(@)]
  /\ fromChild' = [fromChild EXCEPT ![w] = Append(@, longComputation)]
  /\ nsent' = [nsent EXCEPT ![w] = @ + 1]
  /\ UNCHANGED <<nreq, url, resEnd, busy, loopI, loopSum, serverUp, nfork,
                 owner, listener, wstate, exitInfo, exitEvent, sendErr>>
  /\ UNCHANGED <<spawnErr, msgVars, spawnVars, exampleVars>>

\* a worker process terminates: compute.js never exits by itself, the OS
\* or a crash ends it.  What it already sent stays in the channel.
WorkerExit(w, info) ==
  /\ wstate[w] = "running"
  /\ wstate' = [wstate EXCEPT ![w] = "exited"]
  /\ exitInfo' = [exitInfo EXCEPT ![w] = info]
  /\ exitEvent' = [exitEvent EXCEPT ![w] = "pending"]
  /\ UNCHANGED <<nreq, url, resEnd, busy, loopI, loopSum, serverUp, nfork,
                 owner, listener, sendErr, nsent, toChild, fromChild>>
  /\ UNCHANGED <<spawnErr, msgVars, spawnVars, exampleVars>>

\* --------------------------------------------------------- forked server
\* fork('compute.js') as worker w; died is NoExit, or the code and signal of
\* a process that terminated before the parent wrote to its channel, or
\* SpawnFailed when no process could be created: then compute emits 'error'
Fork(w, r, died) ==
  /\ nfork' = w
  /\ owner' = [owner EXCEPT ![w] = r]
  /\ wstate' = [wstate EXCEPT ![w] = IF died = NoExit THEN "running"
                                     ELSE IF died = SpawnFailed THEN "failed"
                                     ELSE "exited"]
  /\ exitInfo' = [exitInfo EXCEPT ![w] = IF died = SpawnFailed THEN NoExit ELSE died]
  /\ exitEvent' = [exitEvent EXCEPT ![w] = IF died \in ExitInfos THEN "pending" ELSE "none"]
  /\ spawnErr' = [spawnErr EXCEPT ![w] = IF died = SpawnFailed THEN "pending" ELSE "none"]

\* compute.send('start'): no callback is passed, so a failed send shows only
\* as an 'error' event of compute, later
ComputeSend(w, msg) ==
  IF wstate'[w] = "running"
    THEN /\ toChild' = [toChild EXCEPT ![w] = Append(@, msg)]
         /\ UNCHANGED sendErr
    ELSE /\ sendErr' = [sendErr EXCEPT ![w] = "pending"]
         /\ UNCHANGED toChild

\* a handler that does not register its listener in the same tick
ComputeOnMessageLate(w, r) == UNCHANGED listener

\* compute.on('message', sum => res.end(...)): the closure keeps res
ComputeOnMessage(w, r) == listener' = [listener EXCEPT ![w] = r]

\* the in-process handler's /compute branch enters longComputation: the
\* event loop stays in the handler until the loop is over
InProcCompute ==
  /\ serverUp /\ busy = 0 /\ nreq < MaxRequests
  /\ nreq' = nreq + 1
  /\ url' = [url EXCEPT ![nreq + 1] = "/compute"]
  /\ busy' = nreq + 1
  /\ loopI' = 0
  /\ loopSum' = 0
  /\ UNCHANGED <<resEnd, serverUp, nfork, owner, listener, wstate, exitInfo,
                 exitEvent, sendErr, nsent, toChild, fromChild>>
  /\ UNCHANGED <<spawnErr, msgVars, spawnVars, exampleVars>>

\* a handler that computes in the server process instead of forking
RequestComputeBlocking(died) == died = NoExit /\ InProcCompute

\* server.on('request') of the forked server, req.url === '/compute'
RequestCompute(died) ==
  /\ serverUp /\ busy = 0 /\ nreq < MaxRequests
  /\ LET r == nreq + 1
         w == nfork + 1
     IN /\ nreq' = r
        /\ url' = [url EXCEPT ![r] = "/compute"]
        /\ Fork(w, r, died)
        /\ ComputeSend(w, "start")
        /\ ComputeOnMessage(w, r)
  /\ UNCHANGED <<resEnd, busy, loopI, loopSum, serverUp, nsent, fromChild>>
  /\ UNCHANGED <<msgVars, spawnVars, exampleVars>>

\* an else branch that answers 'Ok' after forking a worker all the same
RequestOtherForking ==
  /\ serverUp /\ busy = 0 /\ nreq < MaxRequests
  /\ nreq' = nreq + 1
  /\ url' = [url EXCEPT ![nreq + 1] = "/"]
  /\ ResEndCall(nreq + 1, OkBody, 0)
  /\ Fork(nfork + 1, nreq + 1, NoExit)
  /\ UNCHANGED <<busy, loopI, loopSum, serverUp, listener, sendErr, nsent,
                 toChild, fromChild>>
  /\ UNCHANGED <<msgVars, spawnVars, exampleVars>>

\* server.on('request'), the else branch: res.end('Ok')
RequestOther ==
  /\ serverUp /\ busy = 0 /\ nreq < MaxRequests
  /\ nreq' = nreq + 1
  /\ url' = [url EXCEPT ![nreq + 1] = "/"]
  /\ ResEndCall(nreq + 1, OkBody, 0)
  /\ UNCHANGED <<busy, loopI, loopSum, serverUp, nfork, owner, listener, wstate,
                 exitInfo, exitEvent, sendErr, nsent, toChild, fromChild>>
  /\ UNCHANGED <<spawnErr, msgVars, spawnVars, exampleVars>>

\* a handler that answers the oldest /compute request still waiting
OldestWaiting(w) ==
  LET waiting == {r \in Req : url[r] = "/compute" /\ resEnd[r] = <<>>}
  IN IF waiting = {} THEN listener[w]
     ELSE CHOOSE r \in waiting : \A q \in waiting : r <= q

\* the res of the listener registered on worker w
ListenerRes(w) == listener[w]

\* a 'message' event whose listener is removed once it has been called,
\* while the worker is still running
ParentOnMessageOnce(w) ==
  /\ serverUp /\ busy = 0
  /\ fromChild[w] # <<>>
  /\ fromChild' = [fromChild EXCEPT ![w] = Tail(@)]
  /\ IF listener[w] # 0
       THEN ResEndCall(ListenerRes(w), SumBody(Head(fromChild[w])), w)
       ELSE UNCHANGED resEnd
  /\ listener' = [listener EXCEPT ![w] = 0]
  /\ UNCHANGED <<nreq, url, busy, loopI, loopSum, serverUp, nfork, owner,
                 wstate, exitInfo, exitEvent, sendErr, nsent, toChild>>
  /\ UNCHANGED <<spawnErr, msgVars, spawnVars, exampleVars>>

\* the parent receives a message of worker w: the 'message' event of compute
\* calls the registered listener, and no listener means nobody is called
ParentOnMessage(w) ==
  /\ serverUp /\ busy = 0
  /\ fromChild[w] # <<>>
  /\ fromChild' = [fromChild EXCEPT ![w] = Tail(@)]
  /\ IF listener[w] # 0
       THEN ResEndCall(ListenerRes(w), SumBody(Head(fromChild[w])), w)
       ELSE UNCHANGED resEnd
  /\ UNCHANGED <<nreq, url, busy, loopI, loopSum, serverUp, nfork, owner,
                 listener, wstate, exitInfo, exitEvent, sendErr, nsent, toChild>>
  /\ UNCHANGED <<spawnErr, msgVars, spawnVars, exampleVars>>

\* the 'exit' event of compute: the handler registers no 'exit' listener, so
\* nothing is called
ParentOnExit(w) ==
  /\ serverUp /\ busy = 0
  /\ exitEvent[w] = "pending"
  /\ exitEvent' = [exitEvent EXCEPT ![w] = "emitted"]
  /\ UNCHANGED <<nreq, url, resEnd, busy, loopI, loopSum, serverUp, nfork,
                 owner, listener, wstate, exitInfo, sendErr, nsent, toChild,
                 fromChild>>
  /\ UNCHANGED <<spawnErr, msgVars, spawnVars, exampleVars>>

\* the failed send of compute.send('start') comes back: either as an 'error'
\* event of compute, which has no listener and so is thrown in the server
\* process, or not at all
SendFailure(w, thrown) ==
  /\ serverUp /\ busy = 0
  /\ sendErr[w] = "pending"
  /\ sendErr' = [sendErr EXCEPT ![w] = IF thrown THEN "thrown" ELSE "dropped"]
  /\ serverUp' = ~thrown
  /\ UNCHANGED <<nreq, url, resEnd, busy, loopI, loopSum, nfork, owner,
                 listener, wstate, exitInfo, exitEvent, nsent, toChild,
                 fromChild>>
  /\ UNCHANGED <<spawnErr, msgVars, spawnVars, exampleVars>>

\* the 'error' event of a compute that could not be spawned: the handler
\* registers no 'error' listener, so the event is thrown in the server process
SpawnError(w) ==
  /\ serverUp /\ busy = 0
  /\ spawnErr[w] = "pending"
  /\ spawnErr' = [spawnErr EXCEPT ![w] = "thrown"]
  /\ serverUp' = FALSE
  /\ UNCHANGED <<nreq, url, resEnd, busy, loopI, loopSum, nfork, owner,
                 listener, wstate, exitInfo, exitEvent, sendErr, nsent, toChild,
                 fromChild>>
  /\ UNCHANGED <<msgVars, spawnVars, exampleVars>>

Init == ServerIdle /\ MsgIdle /\ SpawnIdle /\ ExamplesIdle

\* the steps of the server's and the workers' event loops
ProgramStep ==
  \/ \E w \in Worker : WorkerOnMessage(w)
  \/ \E w \in Worker : ParentOnMessage(w)
  \/ \E w \in Worker : ParentOnExit(w)
  \/ \E w \in Worker : \E thrown \in BOOLEAN : SendFailure(w, thrown)
  \/ \E w \in Worker : SpawnError(w)

\* what the clients and the OS do
EnvStep ==
  \/ \E died \in ExitInfos \cup {NoExit, SpawnFailed} : RequestCompute(died)
  \/ RequestOther
  \/ \E w \in Worker : \E info \in ExitInfos : WorkerExit(w, info)

Next == ProgramStep \/ EnvStep

Spec == Init /\ [][Next]_vars

FairSpec == Spec /\ WF_vars(ProgramStep)


\* ----------------------------------------------- forked server: sessions
\* the sessions the server process still holds: a worker's ChildProcess with
\* the listener registered on it, until the worker's exit has been observed
Registry == {w \in Worker : listener[w] # 0 /\ exitEvent[w] # "emitted"}

\* the calls of res.end made for the session of worker w
Outcomes(w) == resEnd[owner[w]]

\* worker w was forked and took its Start message
Spawned(w) == owner[w] # 0 /\ sendErr[w] = "none"

\* nothing more can happen in the session of worker w: the worker terminated,
\* the parent observed it, and no message of the worker is in flight
SessionOver(w) ==
  wstate[w] = "exited" /\ exitEvent[w] = "emitted" /\ fromChild[w] = <<>>

\* the session of worker w has resolved: a result was delivered, or the
\* worker's termination was observed
Resolved(w) == Outcomes(w) # <<>> \/ exitEvent[w] = "emitted"

\* a worker sends at most one sum: it gets one 'start' and answers each
\* message once
AtMostOneResult == \A w \in Worker : nsent[w] <= 1

\* C1: every successfully spawned session delivers exactly one terminal
\* outcome to its caller: never a second one, and, once the session is over
\* with the server still running, never none.
C1_ExactlyOneOutcome ==
  \A w \in Worker :
    Spawned(w) =>
      /\ Len(Outcomes(w)) <= 1
      /\ (SessionOver(w) /\ serverUp => Len(Outcomes(w)) = 1)

\* C2: once the parent has observed the exit of a worker that sent no Result,
\* the caller of that session has been resumed with a WorkerDiedError that
\* carries the worker's exit code and signal.
C2_WorkerDiedReported ==
  \A w \in Worker :
    (Spawned(w) /\ serverUp /\ exitEvent[w] = "emitted" /\ nsent[w] = 0) =>
      \E i \in DOMAIN Outcomes(w) :
        Outcomes(w)[i].text =
          <<"WorkerDiedError", exitInfo[w].code, exitInfo[w].signal>>

\* C3: a response that a worker's Result produced belongs to the request
\* whose handler forked that worker, and carries that worker's sum.
C3_OwnResultOnly ==
  \A r \in Req : \A i \in DOMAIN resEnd[r] :
    resEnd[r][i].via # 0 =>
      /\ owner[resEnd[r][i].via] = r
      /\ resEnd[r][i].text = SumBody(longComputation)

\* C3 witness: two sessions are active at once, the later one has been
\* answered by its own worker while the earlier one's result is in flight.
C3_Witness ==
  /\ nfork >= 2
  /\ resEnd[owner[1]] = <<>> /\ fromChild[1] # <<>>
  /\ Len(resEnd[owner[2]]) = 1 /\ resEnd[owner[2]][1].via = 2

\* C5: as long as the server runs, the next request can be handled at once,
\* whatever the workers are doing, and a request that is not /compute has
\* been answered 'Ok' by its handler.
C5_NeverBlocked ==
  /\ (serverUp /\ nreq < MaxRequests) => ENABLED RequestOther
  /\ \A r \in Req : url[r] = "/" => resEnd[r] = <<[text |-> OkBody, via |-> 0]>>

\* C5 witness: a request that is not /compute was answered while a /compute
\* session was waiting for its worker, and the server can take another one.
C5_Witness ==
  /\ serverUp /\ nreq < MaxRequests
  /\ \E w \in Worker : Spawned(w) /\ wstate[w] = "running" /\ Outcomes(w) = <<>>
                        /\ \E r \in Req : r > owner[w] /\ url[r] = "/"

\* C6: when every session that was created has resolved, the registry is
\* empty.
C6_RegistryEmptied ==
  (nfork > 0 /\ \A w \in 1..nfork : Resolved(w)) => Registry = {}

\* C7: after the caller has received a session's result, the session's worker
\* process eventually terminates.
C7_WorkerReclaimed ==
  \A w \in Worker :
    (owner[w] # 0 /\ resEnd[owner[w]] # <<>>) ~> (wstate[w] = "exited")

\* C9: a send to a worker whose process has already exited is reported to
\* the caller as ChannelClosedError.
C9_SendFailureReported ==
  \A w \in Worker :
    sendErr[w] \in {"thrown", "dropped"} =>
      \E i \in DOMAIN Outcomes(w) : Outcomes(w)[i].text[1] = "ChannelClosedError"


\* ------------------------------------------------- parent.js and child.js
\* a listener registered with once: only the first message is logged
ForkedOnceMessage(msg) ==
  parentLog' = IF parentLog = <<>> THEN <<msg>> ELSE parentLog

\* forked.on('message', (msg) => console.log('Message from child', msg))
ForkedOnMessage(msg) == parentLog' = Append(parentLog, msg)

\* the 'message' event of forked in parent.js
ParentReceive ==
  /\ msgUp # <<>>
  /\ ForkedOnMessage(Head(msgUp))
  /\ msgUp' = Tail(msgUp)
  /\ UNCHANGED <<forkedAlive, counter, msgDown, childLog>>
  /\ UNCHANGED <<serverVars, spawnVars, exampleVars>>

\* process.on('message', ...) of child.js
ChildOnMessage ==
  /\ forkedAlive
  /\ msgDown # <<>>
  /\ childLog' = Append(childLog, Head(msgDown))
  /\ msgDown' = Tail(msgDown)
  /\ UNCHANGED <<forkedAlive, counter, msgUp, parentLog>>
  /\ UNCHANGED <<serverVars, spawnVars, exampleVars>>

\* the setInterval callback of child.js: process.send({ counter: counter++ })
ChildInterval ==
  /\ forkedAlive
  /\ counter < MaxCounter
  /\ msgUp' = Append(msgUp, [counter |-> counter])
  /\ counter' = counter + 1
  /\ UNCHANGED <<forkedAlive, msgDown, parentLog, childLog>>
  /\ UNCHANGED <<serverVars, spawnVars, exampleVars>>

\* the child.js process terminates; what it sent stays in the channel
ChildJsExit ==
  /\ forkedAlive
  /\ forkedAlive' = FALSE
  /\ UNCHANGED <<counter, msgUp, msgDown, parentLog, childLog>>
  /\ UNCHANGED <<serverVars, spawnVars, exampleVars>>

\* parent.js has run: child.js is forked, the listener is registered and
\* { hello: 'world' } is sent
MsgInit ==
  /\ forkedAlive = TRUE
  /\ counter = 0
  /\ msgUp = <<>>
  /\ msgDown = <<[hello |-> "world"]>>
  /\ parentLog = <<>>
  /\ childLog = <<>>

InitMsg == ServerIdle /\ MsgInit /\ SpawnIdle /\ ExamplesIdle

NextMsg == ParentReceive \/ ChildOnMessage \/ ChildInterval \/ ChildJsExit

SpecMsg == InitMsg /\ [][NextMsg]_vars

\* the messages child.js has sent so far, in the order it sent them
SentSoFar == [i \in 1..counter |-> [counter |-> i - 1]]

\* C4: the parent's listener has been called with the worker's messages in
\* the order they were sent: what it logged, followed by what is in flight,
\* is what the worker sent, with nothing reordered, dropped or duplicated.
C4_InOrder == parentLog \o msgUp = SentSoFar

\* C4 witness: the worker sent all its messages and the listener got them all.
C4_Witness == counter = MaxCounter /\ Len(parentLog) = MaxCounter

\* ------------------------------------- spawned child with piped stdio
\* a handler registered for 'close' as well as for 'exit'
ExitAndCloseEvents == {"exit", "close"}

\* child.on('exit', ...): the events the handler is registered for
ExitListenerEvents == {"exit"}

\* the handler of line 55: console.log('child process exited with code ...')
LogExit(code, signal) ==
  consoleLog' = Append(consoleLog, [kind |-> "exit", text |-> <<code, signal>>])

\* the child writes a chunk to its stdout or stderr; it waits while the pipe
\* is full
ChildWrite(stream) ==
  /\ childState = "running"
  /\ written < MaxChunks
  /\ written' = written + 1
  /\ IF stream = "stdout"
       THEN /\ Len(stdoutPipe) < PipeCap
            /\ stdoutPipe' = Append(stdoutPipe, written + 1)
            /\ UNCHANGED stderrPipe
       ELSE /\ Len(stderrPipe) < PipeCap
            /\ stderrPipe' = Append(stderrPipe, written + 1)
            /\ UNCHANGED stdoutPipe
  /\ UNCHANGED <<childState, childExit, events, consoleLog>>
  /\ UNCHANGED <<serverVars, msgVars, exampleVars>>

\* the child exits with a code or is killed by a signal: the ChildProcess
\* object will emit 'exit', and 'close' once the stdio streams are closed
ChildTerminate(info) ==
  /\ childState = "running"
  /\ childState' = "exited"
  /\ childExit' = info
  /\ events' = {"exit", "close"}
  /\ UNCHANGED <<written, stdoutPipe, stderrPipe, consoleLog>>
  /\ UNCHANGED <<serverVars, msgVars, exampleVars>>

\* child.stdout.on('data', ...)
StdoutData ==
  /\ stdoutPipe # <<>>
  /\ consoleLog' = Append(consoleLog, [kind |-> "stdout", text |-> <<Head(stdoutPipe)>>])
  /\ stdoutPipe' = Tail(stdoutPipe)
  /\ UNCHANGED <<childState, childExit, written, stderrPipe, events>>
  /\ UNCHANGED <<serverVars, msgVars, exampleVars>>

\* child.stderr.on('data', ...)
StderrData ==
  /\ stderrPipe # <<>>
  /\ consoleLog' = Append(consoleLog, [kind |-> "stderr", text |-> <<Head(stderrPipe)>>])
  /\ stderrPipe' = Tail(stderrPipe)
  /\ UNCHANGED <<childState, childExit, written, stdoutPipe, events>>
  /\ UNCHANGED <<serverVars, msgVars, exampleVars>>

\* the ChildProcess object emits 'exit', or 'close' after 'exit' and the end
\* of both streams, with the code and the signal; the handlers registered
\* for the event are called
EmitChildEvent(e) ==
  /\ e \in events
  /\ e = "close" => ("exit" \notin events /\ stdoutPipe = <<>> /\ stderrPipe = <<>>)
  /\ events' = events \ {e}
  /\ IF e \in ExitListenerEvents
       THEN LogExit(childExit.code, childExit.signal)
       ELSE UNCHANGED consoleLog
  /\ UNCHANGED <<childState, childExit, written, stdoutPipe, stderrPipe>>
  /\ UNCHANGED <<serverVars, msgVars, exampleVars>>

\* spawn('pwd') has returned and the three listeners are registered
SpawnInit ==
  /\ childState = "running"
  /\ childExit = NoExit
  /\ written = 0
  /\ stdoutPipe = <<>>
  /\ stderrPipe = <<>>
  /\ events = {}
  /\ consoleLog = <<>>

InitSpawn == ServerIdle /\ MsgIdle /\ SpawnInit /\ ExamplesIdle

NextSpawn ==
  \/ \E stream \in {"stdout", "stderr"} : ChildWrite(stream)
  \/ \E info \in ExitInfos : ChildTerminate(info)
  \/ StdoutData
  \/ StderrData
  \/ \E e \in {"exit", "close"} : EmitChildEvent(e)

SpecSpawn == InitSpawn /\ [][NextSpawn]_vars

\* the calls of the 'exit' handler so far
IsExitLine(l) == l.kind = "exit"
ExitCalls == SelectSeq(consoleLog, IsExitLine)

\* C10: the exit listener is called at most once, never while the process
\* runs, exactly once by the time the process's events are all emitted, and
\* with the process's exit code or its signal, one of the two and not both.
C10_ExitOnce ==
  /\ Len(ExitCalls) <= 1
  /\ childState = "running" => ExitCalls = <<>>
  /\ (childState = "exited" /\ events = {}) => Len(ExitCalls) = 1
  /\ \A i \in DOMAIN ExitCalls :
       /\ ExitCalls[i].text = <<childExit.code, childExit.signal>>
       /\ (ExitCalls[i].text[1] = "null") # (ExitCalls[i].text[2] = "null")

\* C10 witness: a killed child's exit and close events have both been
\* emitted and the listener has been called.
C10_Witness ==
  /\ childState = "exited" /\ events = {}
  /\ childExit.signal # "null"
  /\ Len(ExitCalls) = 1


\* ------------------------------------- forked server: worker and frames
\* C11: a worker sends nothing before it receives a message and exactly one
\* sum for the one Start it receives: the sums it sent are as many as the
\* messages it took, and with the Start still in flight they make one per
\* successfully started worker.
C11_OneResultPerStart ==
  \A w \in Worker :
    /\ nsent[w] <= 1
    /\ nsent[w] + Len(toChild[w]) = (IF Spawned(w) THEN 1 ELSE 0)

\* C11 witness: a running worker has taken its Start and sent its sum.
C11_Witness ==
  \E w \in Worker : wstate[w] = "running" /\ toChild[w] = <<>> /\ nsent[w] = 1

\* C13: when the worker process cannot be created, no Start is sent to it and
\* the failure is reported to the caller of the session as SpawnError.
C13_SpawnErrorReported ==
  \A w \in Worker :
    wstate[w] = "failed" =>
      /\ sendErr[w] = "none"
      /\ spawnErr[w] = "thrown" =>
           \E i \in DOMAIN Outcomes(w) : Outcomes(w)[i].text[1] = "SpawnError"

C15_StrayIgnored ==
  [][\A w \in Worker :
       (ParentOnMessage(w) /\ w \notin Registry) => resEnd' = resEnd]_vars

\* the results of worker w that reached a caller
ResultsDelivered(w) ==
  Cardinality({rc \in UNION {{<<r, i>> : i \in DOMAIN resEnd[r]} : r \in Req} :
                 resEnd[rc[1]][rc[2]].via = w})

\* C16: the listener is registered before a Result of the worker can be
\* delivered, so no Result is lost: every sum a worker sent is in flight or
\* has reached a caller.
C16_NoResultLost ==
  \A w \in Worker :
    /\ fromChild[w] # <<>> => listener[w] # 0
    /\ nsent[w] = Len(fromChild[w]) + ResultsDelivered(w)

\* C16 witness: the sum a worker sent has been delivered to a caller.
C16_Witness ==
  \E w \in Worker : nsent[w] = 1 /\ fromChild[w] = <<>> /\ ResultsDelivered(w) = 1

\* C19: the handler of a request that is not /compute answers 'Ok' and
\* changes nothing else; the handler of a /compute request forks exactly one
\* worker, for this request, and calls send on it once.
C19_RequestFrame ==
  [][nreq' # nreq =>
       IF url'[nreq'] = "/compute"
         THEN /\ nfork' = nfork + 1
              /\ owner'[nfork'] = nreq'
              /\ Len(toChild'[nfork']) + (IF sendErr'[nfork'] = "none" THEN 0 ELSE 1) = 1
              /\ \A w \in Worker \ {nfork'} :
                   /\ owner'[w] = owner[w] /\ wstate'[w] = wstate[w]
                   /\ toChild'[w] = toChild[w] /\ listener'[w] = listener[w]
              /\ resEnd' = resEnd
         ELSE /\ resEnd' = [resEnd EXCEPT ![nreq'] = <<[text |-> OkBody, via |-> 0]>>]
              /\ UNCHANGED <<nfork, owner, listener, wstate, exitInfo, exitEvent,
                             sendErr, spawnErr, nsent, toChild, fromChild>>]_vars

\* C19 witness: a /compute request was handled while an earlier session was
\* waiting, and a request that is not /compute after them.
C19_Witness ==
  /\ nreq = 3 /\ url[3] = "/" /\ nfork = 2
  /\ Outcomes(1) = <<>> /\ Outcomes(2) = <<>>

\* ------------------------------------------------- in-process server
\* the in-process handler's answer to a request: `Sum is ${sum}` with the
\* sum of longComputation for /compute, 'Ok' otherwise
InProcAnswer(u) == IF u = "/compute" THEN SumBody(longComputation) ELSE OkBody

\* one iteration of longComputation's loop inside the handler
InProcLoopStep ==
  /\ busy # 0
  /\ loopI < LoopLimit
  /\ loopSum' = loopSum + loopI
  /\ loopI' = loopI + 1
  /\ UNCHANGED <<nreq, url, resEnd, busy, serverUp, nfork, owner, listener,
                 wstate, exitInfo, exitEvent, sendErr, nsent, toChild, fromChild>>
  /\ UNCHANGED <<spawnErr, msgVars, spawnVars, exampleVars>>

\* the loop is over: return res.end(`Sum is ${sum}`)
InProcFinish ==
  /\ busy # 0
  /\ loopI >= LoopLimit
  /\ ResEndCall(busy, SumBody(loopSum), 0)
  /\ busy' = 0
  /\ UNCHANGED <<nreq, url, loopI, loopSum, serverUp, nfork, owner, listener,
                 wstate, exitInfo, exitEvent, sendErr, nsent, toChild, fromChild>>
  /\ UNCHANGED <<spawnErr, msgVars, spawnVars, exampleVars>>

NextInProc == InProcCompute \/ InProcLoopStep \/ InProcFinish \/ RequestOther

SpecInProc == Init /\ [][NextInProc]_vars

\* the in-process server answers every request it has handled, once, with
\* InProcAnswer
InProcAnswers ==
  \A r \in Req :
    (url[r] # "-" /\ busy # r) => resEnd[r] = <<[text |-> InProcAnswer(url[r]), via |-> 0]>>

\* nothing more can happen for request r in the forked server
RequestOver(r) ==
  \/ url[r] = "/"
  \/ \E w \in Worker : owner[w] = r /\ Spawned(w) /\ SessionOver(w) /\ serverUp

\* C18: the forked server gives every request the answer the in-process
\* server gives it, at most once, and by the time nothing more can happen
\* for the request it has given it.
C18_SameAnswers ==
  \A r \in Req :
    url[r] # "-" =>
      /\ Len(resEnd[r]) <= 1
      /\ \A i \in DOMAIN resEnd[r] : resEnd[r][i].text = InProcAnswer(url[r])
      /\ RequestOver(r) => Len(resEnd[r]) = 1


\* ------------------------------------------- wc fed from process.stdin
\* process.stdin.pipe(child.stdin): a chunk read from the parent's stdin is
\* written to the child's stdin; pipe() waits while the child's pipe is full
StdinPipeData ==
  /\ ~stdinEnded
  /\ typed < MaxChunks
  /\ Len(stdinPipe) < PipeCap
  /\ typed' = typed + 1
  /\ stdinPipe' = Append(stdinPipe, typed + 1)
  /\ UNCHANGED <<stdinEnded, wcCount>>
  /\ UNCHANGED <<serverVars, msgVars, spawnVars, detVars>>

\* Ctrl+D: process.stdin ends and pipe() ends child.stdin
StdinPipeEnd ==
  /\ ~stdinEnded
  /\ stdinEnded' = TRUE
  /\ UNCHANGED <<typed, stdinPipe, wcCount>>
  /\ UNCHANGED <<serverVars, msgVars, spawnVars, detVars>>

\* wc reads a chunk of its input and counts it
WcRead ==
  /\ childState = "running"
  /\ stdinPipe # <<>>
  /\ stdinPipe' = Tail(stdinPipe)
  /\ wcCount' = wcCount + 1
  /\ UNCHANGED <<typed, stdinEnded>>
  /\ UNCHANGED <<serverVars, msgVars, spawnVars, detVars>>

\* at the end of its input wc writes its count to stdout and exits
WcReport ==
  /\ childState = "running"
  /\ stdinEnded /\ stdinPipe = <<>>
  /\ Len(stdoutPipe) < PipeCap
  /\ stdoutPipe' = Append(stdoutPipe, wcCount)
  /\ childState' = "exited"
  /\ childExit' = [code |-> "0", signal |-> "null"]
  /\ events' = {"exit", "close"}
  /\ UNCHANGED <<written, stderrPipe, consoleLog>>
  /\ UNCHANGED <<serverVars, msgVars, exampleVars>>

\* wc writes a diagnostic to stderr: write(2) puts the chunk into the pipe
\* when there is room, and otherwise blocks the process until there is
WcWarn ==
  /\ childState \in {"running", "blocked"}
  /\ written < MaxChunks
  /\ IF Len(stderrPipe) < PipeCap
       THEN /\ stderrPipe' = Append(stderrPipe, written + 1)
            /\ written' = written + 1
            /\ childState' = "running"
       ELSE /\ childState' = "blocked"
            /\ UNCHANGED <<stderrPipe, written>>
  /\ UNCHANGED <<childExit, stdoutPipe, events, consoleLog>>
  /\ UNCHANGED <<serverVars, msgVars, exampleVars>>

\* the OS kills wc
WcKilled(info) ==
  /\ childState \in {"running", "blocked"}
  /\ childState' = "exited"
  /\ childExit' = info
  /\ events' = {"exit", "close"}
  /\ UNCHANGED <<written, stdoutPipe, stderrPipe, consoleLog>>
  /\ UNCHANGED <<serverVars, msgVars, exampleVars>>

\* spawn('wc') has returned, process.stdin is piped into it and the stdout
\* listener is registered
InitPipe == ServerIdle /\ MsgIdle /\ SpawnInit /\ ExamplesIdle

\* the steps of wc
WcStep == WcRead \/ WcReport \/ WcWarn

\* what the user at the terminal and the OS do
PipeEnvStep ==
  \/ StdinPipeEnd
  \/ \E info \in ExitInfos : WcKilled(info)

\* the steps of the parent: the pipe from process.stdin and the one 'data'
\* listener, which is on child.stdout
PipeParentStep == StdinPipeData \/ StdoutData

NextPipe == PipeParentStep \/ WcStep \/ PipeEnvStep

SpecPipe == InitPipe /\ [][NextPipe]_vars

FairSpecPipe == SpecPipe /\ WF_vars(PipeParentStep) /\ WF_vars(WcStep)

\* C17: the parent consumes the child's output stream and its error stream,
\* so a child that waits on a full pipe does not wait forever.
C17_NeverBlockedForever == (childState = "blocked") ~> (childState # "blocked")

\* ------------------------------------------------- detached timer.js
\* the number of ticks of timer.js's timeout (50000 ms in the source)
TimerTicks == 4

\* a child spawned without the detached option
NotDetached == FALSE

\* detached: true
Detached == TRUE

\* stdio: 'ignore'
StdioOption == "ignore"

\* child.unref() was called
Unrefed == TRUE

\* the streams of the child that lead to the spawning process: spawn opens
\* no message channel, and stdio that is not piped leads nowhere
ChannelsToParent ==
  IF StdioOption = "pipe" THEN {"stdin", "stdout", "stderr"} ELSE {}

\* time passes in timer.js
TimerTick ==
  /\ dState = "running"
  /\ dTicks < TimerTicks
  /\ dTicks' = dTicks + 1
  /\ UNCHANGED <<parentState, parentExit, parentExitAt, dState, dExit>>
  /\ UNCHANGED <<serverVars, msgVars, spawnVars, pipeVars>>

\* the timeout of timer.js fires: its callback is empty, nothing keeps the
\* event loop of timer.js and the process exits
TimerFires ==
  /\ dState = "running"
  /\ dTicks = TimerTicks
  /\ dState' = "exited"
  /\ dExit' = [code |-> "0", signal |-> "null"]
  /\ UNCHANGED <<parentState, parentExit, parentExitAt, dTicks>>
  /\ UNCHANGED <<serverVars, msgVars, spawnVars, pipeVars>>

\* the OS kills timer.js
TimerKilled ==
  /\ dState = "running"
  /\ dState' = "exited"
  /\ dExit' = [code |-> "null", signal |-> "SIGTERM"]
  /\ UNCHANGED <<parentState, parentExit, parentExitAt, dTicks>>
  /\ UNCHANGED <<serverVars, msgVars, spawnVars, pipeVars>>

\* the spawning script is over: its process exits once nothing keeps its
\* event loop, and a child that was not unref'ed keeps it until it exits
ParentExits ==
  /\ parentState = "running"
  /\ Unrefed \/ dState = "exited"
  /\ parentState' = "exited"
  /\ parentExit' = [code |-> "0", signal |-> "null"]
  /\ parentExitAt' = dTicks
  /\ UNCHANGED <<dState, dExit, dTicks>>
  /\ UNCHANGED <<serverVars, msgVars, spawnVars, pipeVars>>

\* the OS kills the spawning process alone
ParentKilled ==
  /\ parentState = "running"
  /\ parentState' = "exited"
  /\ parentExit' = [code |-> "null", signal |-> "SIGTERM"]
  /\ parentExitAt' = dTicks
  /\ UNCHANGED <<dState, dExit, dTicks>>
  /\ UNCHANGED <<serverVars, msgVars, spawnVars, pipeVars>>

\* the terminal interrupts the spawning process's process group: the signal
\* reaches every process of the group, and a detached child leads its own
GroupSignal ==
  /\ parentState = "running"
  /\ parentState' = "exited"
  /\ parentExit' = [code |-> "null", signal |-> "SIGINT"]
  /\ parentExitAt' = dTicks
  /\ IF ~Detached /\ dState = "running"
       THEN /\ dState' = "exited"
            /\ dExit' = [code |-> "null", signal |-> "SIGINT"]
       ELSE UNCHANGED <<dState, dExit>>
  /\ UNCHANGED dTicks
  /\ UNCHANGED <<serverVars, msgVars, spawnVars, pipeVars>>

\* spawn('node', ['timer.js'], ...) has returned and child.unref() is called
DetachedInit ==
  /\ parentState = "running"
  /\ parentExit = NoExit
  /\ parentExitAt = 0
  /\ dState = "running"
  /\ dExit = NoExit
  /\ dTicks = 0

InitDetached == ServerIdle /\ MsgIdle /\ SpawnIdle /\ PipeIdle /\ DetachedInit

NextDetached ==
  TimerTick \/ TimerFires \/ TimerKilled \/ ParentExits \/ ParentKilled \/ GroupSignal

SpecDetached == InitDetached /\ [][NextDetached]_vars

\* C12 as stated: after the parent terminated the detached child keeps
\* running, is never terminated by the parent's termination, and has a way
\* to deliver a result.
C12_StillDelivers ==
  /\ dState = "exited" => dExit.signal # "SIGINT"
  /\ (parentState = "exited" /\ dState = "running") =>
       /\ ENABLED (TimerTick \/ TimerFires)
       /\ ChannelsToParent # {}

\* C12 as amended: after the parent terminated the detached child keeps
\* running, and it is never terminated by the parent's termination.
C12_DetachedSurvives ==
  /\ dState = "exited" => dExit.signal # "SIGINT"
  /\ (parentState = "exited" /\ dState = "running") =>
       ENABLED (TimerTick \/ TimerFires)

\* C12 witness: the parent was interrupted with its process group and the
\* detached child ran on after that, to the end of its timeout.
C12_Witness ==
  /\ parentState = "exited" /\ parentExit.signal = "SIGINT"
  /\ dState = "exited" /\ dExit.code = "0"
  /\ parentExitAt < TimerTicks

=============================================================================
